---- MODULE Spec2Model ----
(***************************************************************************)
(* Edge reverse-proxy / cache worker (bom-cache-worker).                   *)
(*                                                                         *)
(* The repository holds three builds of the same request handler:          *)
(*   "index"    src/src/index.ts      two upstreams (/flood, /water)       *)
(*   "part_000" src/unnamed/part_000  one upstream, caches 2xx only        *)
(*   "part_001" src/unnamed/part_001  one upstream, caches every status    *)
(* The model runs whichever build is deployed (variable variant).          *)
(*                                                                         *)
(* Text is modelled as a sequence of tokens (a token is a run of ordinary  *)
(* characters, or one separator / escape), so that splitting, trimming,    *)
(* decoding and encoding are computed as the code computes them.           *)
(***************************************************************************)
EXTENDS Integers, Sequences, FiniteSets, TLC

\* ---------------------------------------------------------------- bounds
\* Number of inbound requests the platform hands to the handler.
NumReq == 2
\* Longest raw inbound query string (in tokens) of the query-string specification.
MaxQueryLen == 5
\* Longest inbound path (in tokens after the leading slash) of the routing
\* specification.
MaxPathLen == 3
\* Longest configured CACHE_TTL text (in characters) of the TTL specification.
MaxTtlLen == 3

\* --------------------------------------------------------- text helpers
\* The string a token sequence spells.
RECURSIVE Join(_)
Join(toks) == IF toks = <<>> THEN "" ELSE Head(toks) \o Join(Tail(toks))

\* Index of the first occurrence of tok in s, 0 when there is none.
RECURSIVE IndexOf(_, _, _)
IndexOf(s, tok, i) ==
  IF i > Len(s) THEN 0
  ELSE IF s[i] = tok THEN i
  ELSE IndexOf(s, tok, i + 1)

\* String.prototype.split(sep) on a token sequence: the pieces between the
\* separators, empty pieces included; always at least one piece.
RECURSIVE Split(_, _)
Split(s, sep) ==
  LET i == IndexOf(s, sep, 1)
  IN  IF i = 0 THEN <<s>>
      ELSE <<SubSeq(s, 1, i - 1)>> \o Split(SubSeq(s, i + 1, Len(s)), sep)

\* String.prototype.trim(): drop leading and trailing blanks.
RECURSIVE TrimLeft(_)
TrimLeft(s) == IF s # <<>> /\ Head(s) = " " THEN TrimLeft(Tail(s)) ELSE s
RECURSIVE TrimRight(_)
TrimRight(s) ==
  IF s # <<>> /\ s[Len(s)] = " " THEN TrimRight(SubSeq(s, 1, Len(s) - 1)) ELSE s
Trim(s) == TrimRight(TrimLeft(s))

\* All token sequences over alphabet A of length at most n.
RECURSIVE SeqsUpTo(_, _)
SeqsUpTo(A, n) ==
  IF n = 0 THEN {<<>>}
  ELSE LET shorter == SeqsUpTo(A, n - 1)
       IN  shorter \cup {Append(s, a) : s \in shorter, a \in A}

\* ------------------------------------------------------------- responses
\* Header names the handler reads or writes, and the mark of a header that
\* is not present.
HeaderNames ==
  {"Access-Control-Allow-Origin", "Access-Control-Allow-Methods",
   "Access-Control-Allow-Headers", "Vary", "Content-Type", "Cache-Control"}
Absent == "(absent)"
NoHeaders == [n \in HeaderNames |-> Absent]
\* Headers.set(name, value)
SetHeader(h, name, value) == [h EXCEPT ![name] = value]
\* new Response(body, {status, headers})
Response(body, status, headers) ==
  [status |-> status, headers |-> headers, body |-> body]
\* Response.ok
Ok(status) == status >= 200 /\ status <= 299

\* The request carried no Origin header (headers.get("Origin") || undefined).
NoOrigin == "(no origin)"

\* ----------------------------------------------------------------- CORS
\* originHeader.split(",").map(s => s.trim())
AllowList(originHeader) ==
  LET parts == Split(originHeader, ",")
  IN  {Join(Trim(parts[i])) : i \in 1..Len(parts)}

\* A slip of withCORS: answering the wildcard instead of echoing the origin.
withCORS_wildcardFirst(res, originHeader, reqOrigin) ==
  LET allowList == AllowList(originHeader)
      h0 == res.headers
      h1 == IF "*" \in allowList
              THEN SetHeader(h0, "Access-Control-Allow-Origin", "*")
            ELSE IF reqOrigin # NoOrigin /\ reqOrigin \in allowList
              THEN SetHeader(h0, "Access-Control-Allow-Origin", reqOrigin)
            ELSE h0
      h2 == SetHeader(h1, "Access-Control-Allow-Methods", "GET,HEAD,OPTIONS")
      h3 == SetHeader(h2, "Access-Control-Allow-Headers", "Content-Type")
      h4 == SetHeader(h3, "Vary", "Origin")
  IN  Response(res.body, res.status, h4)

\* A slip of withCORS: the Vary header left out.
withCORS_noVary(res, originHeader, reqOrigin) ==
  LET allowList == AllowList(originHeader)
      h0 == res.headers
      h1 == IF reqOrigin # NoOrigin /\ ("*" \in allowList \/ reqOrigin \in allowList)
              THEN SetHeader(h0, "Access-Control-Allow-Origin", reqOrigin)
            ELSE IF "*" \in allowList
              THEN SetHeader(h0, "Access-Control-Allow-Origin", "*")
            ELSE h0
      h2 == SetHeader(h1, "Access-Control-Allow-Methods", "GET,HEAD,OPTIONS")
      h3 == SetHeader(h2, "Access-Control-Allow-Headers", "Content-Type")
  IN  Response(res.body, res.status, h3)

\* withCORS(res, originHeader, reqOrigin): a copy of res with the CORS
\* headers set on top of the headers res already carries.
withCORS(res, originHeader, reqOrigin) ==
  LET allowList == AllowList(originHeader)
      h0 == res.headers
      h1 == IF reqOrigin # NoOrigin /\ ("*" \in allowList \/ reqOrigin \in allowList)
              THEN SetHeader(h0, "Access-Control-Allow-Origin", reqOrigin)
            ELSE IF "*" \in allowList
              THEN SetHeader(h0, "Access-Control-Allow-Origin", "*")
            ELSE h0
      h2 == SetHeader(h1, "Access-Control-Allow-Methods", "GET,HEAD,OPTIONS")
      h3 == SetHeader(h2, "Access-Control-Allow-Headers", "Content-Type")
      h4 == SetHeader(h3, "Vary", "Origin")
  IN  Response(res.body, res.status, h4)

\* ------------------------------------------------------ URLSearchParams
\* A decoded name or value is a token sequence; a parameter list is a
\* sequence of [name, value] records in insertion order.

\* Percent/plus decoding of one raw token (application/x-www-form-urlencoded).
DecodeTok(t) ==
  CASE t = "+"   -> " "
    [] t = "%20" -> " "
    [] t = "%3D" -> "="
    [] t = "%26" -> "&"
    [] t = "%2B" -> "+"
    [] OTHER     -> t
Decode(s) == [i \in 1..Len(s) |-> DecodeTok(s[i])]

\* Encoding of one decoded token by the urlencoded serializer: blank becomes
\* "+", the separators are percent-escaped, letters, digits and "*" are kept.
EncodeTok(t) ==
  CASE t = " " -> "+"
    [] t = "=" -> "%3D"
    [] t = "&" -> "%26"
    [] t = "+" -> "%2B"
    [] OTHER   -> t
Encode(s) == [i \in 1..Len(s) |-> EncodeTok(s[i])]

\* One "name=value" piece of a query string: split at the first "=".
ParsePair(piece) ==
  LET i == IndexOf(piece, "=", 1)
  IN  IF i = 0 THEN [name |-> Decode(piece), value |-> <<>>]
      ELSE [name  |-> Decode(SubSeq(piece, 1, i - 1)),
            value |-> Decode(SubSeq(piece, i + 1, Len(piece)))]

RECURSIVE ParsePieces(_)
ParsePieces(pieces) ==
  IF pieces = <<>> THEN <<>>
  ELSE IF Head(pieces) = <<>> THEN ParsePieces(Tail(pieces))
  ELSE <<ParsePair(Head(pieces))>> \o ParsePieces(Tail(pieces))

\* new URLSearchParams(search): pieces between "&", empty pieces skipped.
URLSearchParams(search) == ParsePieces(Split(search, "&"))

\* sp.has(name)
Has(sp, name) == \E i \in 1..Len(sp) : sp[i].name = name

RECURSIVE DropName(_, _)
DropName(sp, name) ==
  IF sp = <<>> THEN <<>>
  ELSE IF Head(sp).name = name THEN DropName(Tail(sp), name)
  ELSE <<Head(sp)>> \o DropName(Tail(sp), name)

\* sp.set(name, value): overwrite the first pair called name and drop the
\* others, or append when there is none.
Set(sp, name, value) ==
  LET i == CHOOSE j \in 0..Len(sp) :
             /\ (j # 0 => sp[j].name = name)
             /\ \A k \in 1..Len(sp) : sp[k].name = name => (j # 0 /\ j <= k)
  IN  IF i = 0 THEN Append(sp, [name |-> name, value |-> value])
      ELSE SubSeq(sp, 1, i - 1) \o <<[name |-> name, value |-> value]>>
             \o DropName(SubSeq(sp, i + 1, Len(sp)), name)

\* sp.toString(): "name=value" pieces joined by "&", as raw tokens.
RECURSIVE Serialize(_)
Serialize(sp) ==
  IF sp = <<>> THEN <<>>
  ELSE Encode(Head(sp).name) \o <<"=">> \o Encode(Head(sp).value)
         \o (IF Tail(sp) = <<>> THEN <<>> ELSE <<"&">> \o Serialize(Tail(sp)))

\* A slip of the default rule: the default is set whether or not the client
\* sent the parameter.
SetIfMissing_always(sp, name, value) == Set(sp, name, value)

\* if (!sp.has(name)) sp.set(name, value)
SetIfMissing(sp, name, value) ==
  IF Has(sp, name) THEN sp ELSE Set(sp, name, value)

\* applyDefaults(sp, kind) of index.ts
applyDefaults(sp, kind) ==
  LET s1 == SetIfMissing(sp, <<"f">>, <<"geojson">>)
      s2 == SetIfMissing(s1, <<"returnGeometry">>, <<"true">>)
      s3 == SetIfMissing(s2, <<"outFields">>, <<"*">>)
      s4 == SetIfMissing(s3, <<"where">>, <<"1", "=", "1">>)
  IN  IF kind = "flood"
        THEN SetIfMissing(s4, <<"resultRecordCount">>, <<"500">>)
        ELSE SetIfMissing(s4, <<"resultRecordCount">>, <<"1000">>)

\* The inline defaults of part_000.
defaults_part_000(sp) ==
  LET s1 == SetIfMissing(sp, <<"f">>, <<"geojson">>)
      s2 == SetIfMissing(s1, <<"returnGeometry">>, <<"true">>)
      s3 == SetIfMissing(s2, <<"resultRecordCount">>, <<"200">>)
      s4 == SetIfMissing(s3, <<"outFields">>, <<"*">>)
  IN  SetIfMissing(s4, <<"where">>, <<"1", "=", "1">>)

\* The inline defaults of part_001 (no filter predicate).
defaults_part_001(sp) ==
  LET s1 == SetIfMissing(sp, <<"f">>, <<"geojson">>)
      s2 == SetIfMissing(s1, <<"returnGeometry">>, <<"true">>)
      s3 == SetIfMissing(s2, <<"resultRecordCount">>, <<"200">>)
  IN  SetIfMissing(s3, <<"outFields">>, <<"*">>)

\* ------------------------------------------------------ route selection
Variants == {"index", "part_000", "part_001"}

\* url.pathname.replace(/\/+$/, ""): trailing slashes trimmed.
RECURSIVE TrimSlashes(_)
TrimSlashes(p) ==
  IF p # <<>> /\ p[Len(p)] = "/" THEN TrimSlashes(SubSeq(p, 1, Len(p) - 1)) ELSE p

\* A slip of the route selection: the path is compared as it came, trailing
\* slashes included.
KindOf_noTrim(path) == IF Join(path) = "/water" THEN "water" ELSE "flood"

\* Route selection of index.ts.
KindOf(path) == IF Join(TrimSlashes(path)) = "/water" THEN "water" ELSE "flood"

\* The configured upstream base URLs (no query string of their own).
UPSTREAM_FLOOD == "https://flood.example/FeatureServer/1/query"
UPSTREAM_WATER == "https://water.example/MapServer/0/query"
UPSTREAM == "https://bom.example/query"

\* The merged parameter list the build v forwards for an inbound request.
MergedParams(v, path, search) ==
  LET sp == URLSearchParams(search)
  IN  CASE v = "index"    -> applyDefaults(sp, KindOf(path))
        [] v = "part_000" -> defaults_part_000(sp)
        [] v = "part_001" -> defaults_part_001(sp)

\* upstream.search = sp.toString(): the forwarded query string, raw tokens.
ForwardedQuery(v, path, search) == Serialize(MergedParams(v, path, search))

\* new URL(base) chosen by the build v.
UpstreamBase(v, path) ==
  IF v = "index"
    THEN (IF KindOf(path) = "flood" THEN UPSTREAM_FLOOD ELSE UPSTREAM_WATER)
    ELSE UPSTREAM

\* A slip of the URL build: the merged query is not assigned to
\* upstream.search, the URL is the bare base.
UpstreamURL_noQuery(v, path, search) == UpstreamBase(v, path)

\* upstream.toString(): the fully resolved upstream URL.
UpstreamURL(v, path, search) ==
  UpstreamBase(v, path) \o "?" \o Join(ForwardedQuery(v, path, search))

\* cacheKeyFromURL / buildCacheKey: new Request(u.toString()); the cache is
\* keyed by the URL of that request.
cacheKeyFromURL(u) == u

\* ----------------------------------------------------------- constants
\* JSON.stringify({ error: "upstream_timeout_or_network" })
ErrorBody == "{\"error\":\"upstream_timeout_or_network\"}"

\* ------------------------------------------------------------------ state
VARIABLES
  variant,   \* the build that is deployed
  env,       \* the configuration: CORS_ORIGIN, CACHE_TTL
  cache,     \* caches.default: resolved URL -> stored response
  writes,    \* cache.put promises handed to ctx.waitUntil and not settled
  h,         \* one record per handler invocation
  last,      \* the response most recently returned to a caller
  evicted    \* whether the platform ever dropped an entry (TTL over)

vars == <<variant, env, cache, writes, h, last, evicted>>

Req == 1..NumReq

\* An invocation that has not started, and the locals of one that returned.
\* Locals: reqOrigin, key, timer, late (8 s have passed since the fetch
\* started), upstreamRes.  History kept after the return: method, path and
\* search (the inbound URL), query (the forwarded query string), url (the resolved
\* upstream URL), fetches (upstream calls made), exit (the return taken),
\* got (status and body the upstream call delivered).
Idle ==
  [pc |-> "idle", reqOrigin |-> NoOrigin, key |-> "", timer |-> "none",
   late |-> FALSE, upstreamRes |-> [status |-> 0, headers |-> NoHeaders],
   method |-> "", path |-> <<>>, search |-> <<>>, query |-> <<>>,
   url |-> "", fetches |-> 0, exit |-> "none",
   got |-> [status |-> 0, body |-> ""]]

\* What stays of invocation r once it has left by exit; clearTimeout (catch
\* and finally) has cleared a timer that was still pending.
Returned(r, exit) ==
  [Idle EXCEPT !.pc = "done",
               !.timer = IF h[r].timer = "pending" THEN "cleared" ELSE h[r].timer,
               !.method = h[r].method, !.path = h[r].path,
               !.search = h[r].search, !.query = h[r].query, !.url = h[r].url,
               !.fetches = h[r].fetches, !.got = h[r].got, !.exit = exit]

NoResponse ==
  [req |-> 0, method |-> "", origin |-> NoOrigin, exit |-> "none",
   res |-> Response("", 0, NoHeaders), from |-> 0, late |-> FALSE]

\* The handler returns res: its locals go away, the response is delivered.
Return(r, method, origin, res, exit, from) ==
  /\ h' = [h EXCEPT ![r] = [Returned(r, exit) EXCEPT !.method = method]]
  /\ last' = [req |-> r, method |-> method, origin |-> origin, exit |-> exit,
              res |-> res, from |-> from, late |-> h[r].late]

\* --------------------------------------------------------------- handler
\* A slip of the method gate: HEAD, which the CORS headers advertise, is let
\* through to the proxy path like GET.
Start_headAsGet(r, method, origin, target) ==
  /\ h[r].pc = "idle"
  /\ \A q \in Req : q < r => h[q].pc # "idle"
  /\ IF method = "OPTIONS"
       THEN Return(r, method, origin,
                   withCORS(Response("", 204, NoHeaders), env.CORS_ORIGIN, origin),
                   "preflight", 0)
     ELSE IF method \notin {"GET", "HEAD"}
       THEN Return(r, method, origin,
                   withCORS(Response("Method Not Allowed", 405,
                                     SetHeader(NoHeaders, "Content-Type",
                                               "text/plain;charset=UTF-8")),
                            env.CORS_ORIGIN, origin),
                   "405", 0)
     ELSE LET u == UpstreamURL(variant, target.path, target.search)
          IN  /\ h' = [h EXCEPT ![r] =
                         [Idle EXCEPT !.pc = "match",
                                      !.method = method,
                                      !.reqOrigin = origin,
                                      !.path = target.path,
                                      !.search = target.search,
                                      !.query = ForwardedQuery(variant, target.path,
                                                               target.search),
                                      !.key = cacheKeyFromURL(u),
                                      !.url = u]]
              /\ last' = last
  /\ UNCHANGED <<variant, env, cache, writes, evicted>>

\* fetch(request, env, ctx) up to its first await: method gating, route
\* selection, query merge, cache key.
Start(r, method, origin, target) ==
  /\ h[r].pc = "idle"
  /\ \A q \in Req : q < r => h[q].pc # "idle"
  /\ IF method = "OPTIONS"
       THEN Return(r, method, origin,
                   withCORS(Response("", 204, NoHeaders), env.CORS_ORIGIN, origin),
                   "preflight", 0)
     ELSE IF method # "GET"
       THEN Return(r, method, origin,
                   withCORS(Response("Method Not Allowed", 405,
                                     SetHeader(NoHeaders, "Content-Type",
                                               "text/plain;charset=UTF-8")),
                            env.CORS_ORIGIN, origin),
                   "405", 0)
     ELSE LET u == UpstreamURL(variant, target.path, target.search)
          IN  /\ h' = [h EXCEPT ![r] =
                         [Idle EXCEPT !.pc = "match",
                                      !.method = method,
                                      !.reqOrigin = origin,
                                      !.path = target.path,
                                      !.search = target.search,
                                      !.query = ForwardedQuery(variant, target.path,
                                                               target.search),
                                      !.key = cacheKeyFromURL(u),
                                      !.url = u]]
              /\ last' = last
  /\ UNCHANGED <<variant, env, cache, writes, evicted>>

\* A slip of the lookup: the stored response is never used.
CacheMatch_neverHit(r) ==
  /\ h[r].pc = "match"
  /\ h' = [h EXCEPT ![r].pc = "fetch", ![r].timer = "pending",
                    ![r].fetches = h[r].fetches + 1]
  /\ UNCHANGED <<variant, env, cache, writes, last, evicted>>

\* const cached = await cache.match(key): a hit returns the stored response
\* through withCORS; a miss arms the 8 s timer and starts the upstream fetch.
CacheMatch(r) ==
  /\ h[r].pc = "match"
  /\ IF h[r].key \in DOMAIN cache
       THEN Return(r, h[r].method, h[r].reqOrigin,
                   withCORS(cache[h[r].key].res, env.CORS_ORIGIN, h[r].reqOrigin),
                   "hit", cache[h[r].key].by)
       ELSE /\ h' = [h EXCEPT ![r].pc = "fetch", ![r].timer = "pending",
                              ![r].fetches = h[r].fetches + 1]
            /\ last' = last
  /\ UNCHANGED <<variant, env, cache, writes, evicted>>

\* 8000 ms pass since setTimeout: a pending timer runs controller.abort; a
\* cleared one does nothing.
Deadline(r) ==
  /\ h[r].pc \in {"fetch", "body"}
  /\ ~h[r].late
  /\ h' = [h EXCEPT ![r].late = TRUE,
                    ![r].timer = IF h[r].timer = "pending" THEN "fired" ELSE h[r].timer]
  /\ UNCHANGED <<variant, env, cache, writes, last, evicted>>

\* A slip of the success path: no finally block, the timer is left armed when
\* the fetch resolves.
FetchResolve_noClear(r, status, headers) ==
  /\ h[r].pc = "fetch"
  /\ h[r].timer = "pending"
  /\ h' = [h EXCEPT ![r].pc = "body",
                    ![r].upstreamRes = [status |-> status, headers |-> headers]]
  /\ UNCHANGED <<variant, env, cache, writes, last, evicted>>

\* The upstream fetch resolves with status and headers; finally clears the
\* timer.
FetchResolve(r, status, headers) ==
  /\ h[r].pc = "fetch"
  /\ h[r].timer = "pending"
  /\ h' = [h EXCEPT ![r].pc = "body", ![r].timer = "cleared",
                    ![r].upstreamRes = [status |-> status, headers |-> headers]]
  /\ UNCHANGED <<variant, env, cache, writes, last, evicted>>

\* A slip of the catch block: a failed fetch is tried once more before the
\* 504 is returned.
FetchReject_retry(r) ==
  /\ h[r].pc = "fetch"
  /\ IF h[r].fetches < 2
       THEN /\ h' = [h EXCEPT ![r].timer = "pending", ![r].late = FALSE,
                              ![r].fetches = h[r].fetches + 1]
            /\ last' = last
       ELSE Return(r, h[r].method, h[r].reqOrigin,
                   withCORS(Response(ErrorBody, 504,
                                     SetHeader(NoHeaders, "Content-Type",
                                               "application/json")),
                            env.CORS_ORIGIN, h[r].reqOrigin),
                   "504", 0)
  /\ UNCHANGED <<variant, env, cache, writes, evicted>>

\* The upstream fetch rejects (network failure, or the abort signal): the
\* catch block returns the 504.
FetchReject(r) ==
  /\ h[r].pc = "fetch"
  /\ Return(r, h[r].method, h[r].reqOrigin,
            withCORS(Response(ErrorBody, 504,
                              SetHeader(NoHeaders, "Content-Type", "application/json")),
                     env.CORS_ORIGIN, h[r].reqOrigin),
            "504", 0)
  /\ UNCHANGED <<variant, env, cache, writes, evicted>>

\* --------------------------------------------------------------- the TTL
\* CACHE_TTL is a sequence of characters, or Unset when the variable is not
\* configured (env.CACHE_TTL is undefined).
Unset == <<"(unset)">>
DigitChars == <<"0", "1", "2", "3", "4", "5", "6", "7", "8", "9">>
Digits == {DigitChars[i] : i \in 1..Len(DigitChars)}
DigitValue(c) == (CHOOSE i \in 1..Len(DigitChars) : DigitChars[i] = c) - 1

\* The longest prefix of s made of decimal digits.
RECURSIVE LeadingDigits(_)
LeadingDigits(s) ==
  IF s # <<>> /\ Head(s) \in Digits THEN <<Head(s)>> \o LeadingDigits(Tail(s)) ELSE <<>>

\* The number a non-empty run of decimal digits denotes.
RECURSIVE Decimal(_)
Decimal(ds) ==
  IF ds = <<>> THEN 0
  ELSE 10 * Decimal(SubSeq(ds, 1, Len(ds) - 1)) + DigitValue(ds[Len(ds)])

\* parseInt(s, 10): leading blanks skipped, an optional sign, then the
\* longest run of digits; whatever follows is ignored; NaN when there is no
\* digit at that place.
parseInt(s) ==
  LET t   == TrimLeft(s)
      neg == t # <<>> /\ Head(t) = "-"
      u   == IF t # <<>> /\ Head(t) \in {"-", "+"} THEN Tail(t) ELSE t
      ds  == LeadingDigits(u)
  IN  IF ds = <<>> THEN [isNaN |-> TRUE, n |-> 0]
      ELSE [isNaN |-> FALSE, n |-> IF neg THEN 0 - Decimal(ds) ELSE Decimal(ds)]

\* env.CACHE_TTL || "3600": an unset or empty variable gives the default text.
TtlSource(configured) ==
  IF configured = Unset \/ configured = <<>> THEN <<"3", "6", "0", "0">> ELSE configured

\* `${ttl}`: the text of the parsed number inside the template string.
NumberText(v) == IF v.isNaN THEN "NaN" ELSE ToString(v.n)

\* The Cache-Control template around the text of the parsed TTL.
CacheControl(ttl) ==
  "public, max-age=" \o ttl \o ", s-maxage=" \o ttl \o ", stale-while-revalidate=60"

\* A slip of the normalization: Content-Type and Cache-Control are set only
\* when the upstream sent none.
Normalize_ifAbsent(headers) ==
  LET h1 == IF headers["Content-Type"] = Absent
              THEN SetHeader(headers, "Content-Type", "application/json; charset=utf-8")
              ELSE headers
  IN  IF h1["Cache-Control"] = Absent
        THEN SetHeader(h1, "Cache-Control",
                       CacheControl(NumberText(parseInt(TtlSource(env.CACHE_TTL)))))
        ELSE h1

\* Normalize headers + caching policy.
Normalize(headers) ==
  SetHeader(SetHeader(headers, "Content-Type", "application/json; charset=utf-8"),
            "Cache-Control", CacheControl(NumberText(parseInt(TtlSource(env.CACHE_TTL)))))

\* A slip of the cache-write condition: every status is cached.
ShouldCache_always(v, status) == TRUE

\* Only cache successful responses: upstreamRes.ok in index.ts and part_000;
\* part_001 writes unconditionally.
ShouldCache(v, status) == IF v = "part_001" THEN TRUE ELSE Ok(status)

\* A slip of the cache write: fresh is stored without clone(), after its body
\* has been handed to the caller's response, so the stored body is empty.
BodyDone_noClone(r, body) ==
  /\ h[r].pc = "body"
  /\ LET fresh == Response(body, h[r].upstreamRes.status,
                           Normalize(h[r].upstreamRes.headers))
     IN  /\ writes' = IF ShouldCache(variant, h[r].upstreamRes.status)
                        THEN writes \cup {[by |-> r, key |-> h[r].key,
                                           res |-> [fresh EXCEPT !.body = ""]]}
                        ELSE writes
         /\ h' = [h EXCEPT ![r] =
                    [Returned(r, "upstream") EXCEPT !.got =
                       [status |-> h[r].upstreamRes.status, body |-> body]]]
         /\ last' = [req |-> r, method |-> h[r].method, origin |-> h[r].reqOrigin,
                     exit |-> "upstream", from |-> 0, late |-> h[r].late,
                     res |-> withCORS(fresh, env.CORS_ORIGIN, h[r].reqOrigin)]
  /\ UNCHANGED <<variant, env, cache, evicted>>

\* A slip of the cache write: what is stored is the response after withCORS,
\* carrying the CORS headers computed for the request that populates.
BodyDone_cacheDecorated(r, body) ==
  /\ h[r].pc = "body"
  /\ LET fresh == Response(body, h[r].upstreamRes.status,
                           Normalize(h[r].upstreamRes.headers))
         sent  == withCORS(fresh, env.CORS_ORIGIN, h[r].reqOrigin)
     IN  /\ writes' = IF ShouldCache(variant, h[r].upstreamRes.status)
                        THEN writes \cup {[by |-> r, key |-> h[r].key, res |-> sent]}
                        ELSE writes
         /\ h' = [h EXCEPT ![r] =
                    [Returned(r, "upstream") EXCEPT !.got =
                       [status |-> h[r].upstreamRes.status, body |-> body]]]
         /\ last' = [req |-> r, method |-> h[r].method, origin |-> h[r].reqOrigin,
                     exit |-> "upstream", from |-> 0, late |-> h[r].late,
                     res |-> sent]
  /\ UNCHANGED <<variant, env, cache, evicted>>

\* The body is buffered: fresh is built, the cache write is registered with
\* ctx.waitUntil when the build's condition holds, fresh is returned.
BodyDone(r, body) ==
  /\ h[r].pc = "body"
  /\ LET fresh == Response(body, h[r].upstreamRes.status,
                           Normalize(h[r].upstreamRes.headers))
     IN  /\ writes' = IF ShouldCache(variant, h[r].upstreamRes.status)
                        THEN writes \cup {[by |-> r, key |-> h[r].key, res |-> fresh]}
                        ELSE writes
         /\ h' = [h EXCEPT ![r] =
                    [Returned(r, "upstream") EXCEPT !.got =
                       [status |-> h[r].upstreamRes.status, body |-> body]]]
         /\ last' = [req |-> r, method |-> h[r].method, origin |-> h[r].reqOrigin,
                     exit |-> "upstream", from |-> 0, late |-> h[r].late,
                     res |-> withCORS(fresh, env.CORS_ORIGIN, h[r].reqOrigin)]
  /\ UNCHANGED <<variant, env, cache, evicted>>

\* await upstreamRes.arrayBuffer() rejects: nothing catches it.
BodyFail(r) ==
  /\ h[r].pc = "body"
  /\ h' = [h EXCEPT ![r] = [Returned(r, "threw") EXCEPT !.pc = "threw"]]
  /\ UNCHANGED <<variant, env, cache, writes, last, evicted>>

\* ------------------------------------------------------------- the cache
\* A slip of the store: a put over an existing entry keeps the body already
\* stored under the new status and headers.
CachePut_mixture(w) ==
  /\ w \in writes
  /\ writes' = writes \ {w}
  /\ cache' = [k \in DOMAIN cache \cup {w.key} |->
                 IF k # w.key THEN cache[k]
                 ELSE IF k \in DOMAIN cache
                   THEN [res |-> [w.res EXCEPT !.body = cache[k].res.body], by |-> w.by]
                   ELSE [res |-> w.res, by |-> w.by]]
  /\ UNCHANGED <<variant, env, h, last, evicted>>

\* A registered cache.put settles: the entry under the key is replaced.
CachePut(w) ==
  /\ w \in writes
  /\ writes' = writes \ {w}
  /\ cache' = [k \in DOMAIN cache \cup {w.key} |->
                 IF k = w.key THEN [res |-> w.res, by |-> w.by] ELSE cache[k]]
  /\ UNCHANGED <<variant, env, h, last, evicted>>

\* A slip of the cache write: the put is awaited by the handler, so its
\* rejection ends the invocation with an exception.
CachePutFail_awaited(w) ==
  /\ w \in writes
  /\ writes' = writes \ {w}
  /\ h' = [h EXCEPT ![w.by].pc = "threw", ![w.by].exit = "threw"]
  /\ UNCHANGED <<variant, env, cache, last, evicted>>

\* A registered cache.put rejects: nothing is stored.
CachePutFail(w) ==
  /\ w \in writes
  /\ writes' = writes \ {w}
  /\ UNCHANGED <<variant, env, cache, h, last, evicted>>

\* The platform drops an entry whose max-age is over.
Expire(k) ==
  /\ k \in DOMAIN cache
  /\ cache' = [x \in DOMAIN cache \ {k} |-> cache[x]]
  /\ evicted' = TRUE
  /\ UNCHANGED <<variant, env, writes, h, last>>

\* One step of the system, with the inbound requests and the upstream's
\* answers drawn from the given sets.
Step(methods, origins, targets, statuses, headerSets, bodies) ==
  \/ \E r \in Req, m \in methods, o \in origins, t \in targets : Start(r, m, o, t)
  \/ \E r \in Req : CacheMatch(r)
  \/ \E r \in Req : Deadline(r)
  \/ \E r \in Req, s \in statuses, hd \in headerSets : FetchResolve(r, s, hd)
  \/ \E r \in Req : FetchReject(r)
  \/ \E r \in Req, b \in bodies : BodyDone(r, b)
  \/ \E r \in Req : BodyFail(r)
  \/ \E w \in writes : CachePut(w)
  \/ \E w \in writes : CachePutFail(w)
  \/ \E k \in DOMAIN cache : Expire(k)

\* ------------------------------------------------ inputs and specifications
Methods == {"GET", "OPTIONS", "POST", "HEAD"}
\* What the upstream may answer.
UpstreamStatuses == {200, 404}
PlainHeaders == [NoHeaders EXCEPT !["Content-Type"] = "text/plain"]
OpenHeaders ==
  [NoHeaders EXCEPT !["Content-Type"] = "application/geo+json",
                    !["Cache-Control"] = "no-store",
                    !["Access-Control-Allow-Origin"] = "*"]
Bodies == {"body-1", "body-2"}
\* Inbound paths and query strings.
Targets ==
  { [path |-> <<"/">>, search |-> <<>>],
    [path |-> <<"/", "water", "/">>, search |-> <<"f", "=", "json">>] }

InitWith(variants, corsOrigins, ttls) ==
  /\ variant \in variants
  /\ env \in [CORS_ORIGIN : corsOrigins, CACHE_TTL : ttls]
  /\ cache = <<>>
  /\ writes = {}
  /\ h = [r \in Req |-> Idle]
  /\ last = NoResponse
  /\ evicted = FALSE

\* The cache protocol: every build, two resolved URLs, two bodies, one
\* origin.
Init ==
  InitWith(Variants, {<<"https://a.example", ",", " ", "https://b.example">>}, {<<"3", "6", "0", "0">>})
Next ==
  Step(Methods, {"https://a.example"}, Targets, UpstreamStatuses, {PlainHeaders}, Bodies)
Spec == Init /\ [][Next]_vars

\* CORS decoration: one resolved URL, every origin case against every
\* configured allow-list, an upstream that sends CORS headers of its own.
\* Each configuration is written with the entries it spells.
CorsConfigs ==
  { [raw     |-> <<"https://a.example", ",", " ", "https://b.example">>,
     entries |-> {"https://a.example", "https://b.example"}],
    [raw     |-> <<"*">>,
     entries |-> {"*"}],
    [raw     |-> <<" ", "https://b.example", " ", ",", "*">>,
     entries |-> {"https://b.example", "*"}],
    [raw     |-> <<"https://b.example", ",", "https://c.example">>,
     entries |-> {"https://b.example", "https://c.example"}] }
Origins == {NoOrigin, "https://a.example"}
InitCORS == InitWith({"index"}, {c.raw : c \in CorsConfigs}, {<<"3", "6", "0", "0">>})
NextCORS ==
  Step(Methods, Origins, {[path |-> <<"/">>, search |-> <<>>]}, UpstreamStatuses,
       {PlainHeaders, OpenHeaders}, {"body-1"})
SpecCORS == InitCORS /\ [][NextCORS]_vars

\* Query merging: every raw inbound query string of at most MaxQueryLen
\* tokens, in every build, through the handler's synchronous first part.
QueryAlphabet == {"f", "x", "=", "&", "+"}
QueryTargets ==
  {[path |-> p, search |-> q] :
     p \in {<<"/">>, <<"/", "water">>}, q \in SeqsUpTo(QueryAlphabet, MaxQueryLen)}
InitQuery == InitWith(Variants, {<<"*">>}, {<<"3", "6", "0", "0">>})
NextQuery ==
  /\ h[1].pc = "idle"
  /\ \E t \in QueryTargets : Start(1, "GET", NoOrigin, t)
SpecQuery == InitQuery /\ [][NextQuery]_vars

\* Route selection: every inbound path of at most MaxPathLen tokens after the
\* leading slash, in index.ts, through the handler's synchronous first part.
PathAlphabet == {"/", "water", "WATER", "flood", "x"}
RouteTargets ==
  {[path |-> <<"/">> \o p, search |-> <<>>] : p \in SeqsUpTo(PathAlphabet, MaxPathLen)}
InitRoute == InitWith({"index"}, {<<"*">>}, {<<"3", "6", "0", "0">>})
NextRoute ==
  /\ h[1].pc = "idle"
  /\ \E t \in RouteTargets : Start(1, "GET", NoOrigin, t)
SpecRoute == InitRoute /\ [][NextRoute]_vars

\* Cache keys: index.ts, requests that differ in Origin, in path alias and in
\* the place of a parameter.  The first two targets resolve to one URL; the
\* third sends the same parameters as the defaults, where in another place.
\* The upstream answers every fetch with 200 and every cache write succeeds.
KeyTargets ==
  { [path |-> <<"/">>, search |-> <<>>],
    [path |-> <<"/", "flood", "/">>, search |-> <<"f", "=", "geojson">>],
    [path |-> <<"/", "nowhere">>,
     search |-> <<"f", "=", "geojson", "&", "where", "=", "1", "=", "1">>],
    [path |-> <<"/", "water">>, search |-> <<>>] }
InitKey == InitWith({"index"}, {<<"*">>}, {<<"3", "6", "0", "0">>})
NextKey ==
  \/ \E r \in Req, o \in Origins, t \in KeyTargets : Start(r, "GET", o, t)
  \/ \E r \in Req : CacheMatch(r)
  \/ \E r \in Req : FetchResolve(r, 200, PlainHeaders)
  \/ \E r \in Req : BodyDone(r, "body-1")
  \/ \E w \in writes : CachePut(w)
SpecKey == InitKey /\ [][NextKey]_vars

\* The background write: index.ts, requests for one URL that the upstream
\* answers with 200 or 404.  ctx.waitUntil keeps the invocation's context
\* alive until the promise it was given settles, so a registered cache.put
\* does settle: fulfilled or rejected.
InitLive == InitWith({"index"}, {<<"*">>}, {<<"3", "6", "0", "0">>})
NextLive ==
  Step({"GET"}, {NoOrigin}, {[path |-> <<"/">>, search |-> <<>>]}, UpstreamStatuses,
       {PlainHeaders}, {"body-1"})
Settles(r) == \E w \in writes : w.by = r /\ (CachePut(w) \/ CachePutFail(w))
SpecLive == InitLive /\ [][NextLive]_vars /\ \A r \in Req : WF_vars(Settles(r))

\* Racing requests: every build, concurrent GETs for one URL that the
\* upstream answers with either status and either body.
InitRace == InitWith(Variants, {<<"*">>}, {<<"3", "6", "0", "0">>})
NextRace ==
  Step({"GET"}, {NoOrigin}, {[path |-> <<"/">>, search |-> <<>>]}, UpstreamStatuses,
       {PlainHeaders}, Bodies)
SpecRace == InitRace /\ [][NextRace]_vars

\* Hits across origins: index.ts, every configured allow-list; the first
\* request carries Origin https://a.example, the later ones none or
\* https://b.example; the upstream answers 200, with or without an
\* Access-Control-Allow-Origin of its own.
PortalHeaders ==
  [NoHeaders EXCEPT !["Content-Type"] = "application/geo+json",
                    !["Access-Control-Allow-Origin"] = "https://portal.example"]
InitHit == InitWith({"index"}, {c.raw : c \in CorsConfigs}, {<<"3", "6", "0", "0">>})
NextHit ==
  \/ Start(1, "GET", "https://a.example", [path |-> <<"/">>, search |-> <<>>])
  \/ \E r \in Req \ {1}, o \in {NoOrigin, "https://b.example"} :
       Start(r, "GET", o, [path |-> <<"/">>, search |-> <<>>])
  \/ \E r \in Req : CacheMatch(r)
  \/ \E r \in Req, hd \in {PlainHeaders, PortalHeaders} : FetchResolve(r, 200, hd)
  \/ \E r \in Req : BodyDone(r, "body-1")
  \/ \E w \in writes : CachePut(w)
SpecHit == InitHit /\ [][NextHit]_vars

\* The TTL: every configured CACHE_TTL text of at most MaxTtlLen characters,
\* and the unset variable, in index.ts; one GET that misses, is answered 200
\* by the upstream and is cached.
TtlAlphabet == {"6", "0", "m", "-", " "}
TtlConfigs == SeqsUpTo(TtlAlphabet, MaxTtlLen) \cup {Unset}
InitTTL == InitWith({"index"}, {<<"*">>}, TtlConfigs)
NextTTL ==
  \/ Start(1, "GET", NoOrigin, [path |-> <<"/">>, search |-> <<>>])
  \/ CacheMatch(1)
  \/ FetchResolve(1, 200, PlainHeaders)
  \/ BodyDone(1, "body-1")
  \/ \E w \in writes : CachePut(w)
SpecTTL == InitTTL /\ [][NextTTL]_vars

\* ------------------------------------------------------------ properties
\* Invocation r made the cache write it registered, or an entry it wrote is
\* in the cache.
Wrote(r) ==
  \/ \E w \in writes : w.by = r
  \/ \E k \in DOMAIN cache : cache[k].by = r

\* C1: in every build, a GET that misses the cache and gets a status outside
\* 200-299 from the upstream returns that status and writes nothing to the
\* cache, so the cache never holds an entry made from a non-2xx response.
C1_NonOkNeverCached ==
  /\ \A r \in Req :
       (h[r].exit = "upstream" /\ ~Ok(h[r].got.status)) => ~Wrote(r)
  /\ (last.exit = "upstream" => last.res.status = h[last.req].got.status)
  /\ \A k \in DOMAIN cache : Ok(cache[k].res.status)

\* C2: once an entry is in the cache under a resolved upstream URL (a
\* completed, unexpired write), a request for that URL whose lookup follows is
\* a cache hit: it makes no upstream fetch and returns the status and the body
\* bytes of the upstream response that populated the entry.
C2_HitReturnsPopulatingResponse ==
  [][ \A r \in Req :
        ( /\ h[r].pc = "match"
          /\ h'[r].pc # "match"
          /\ h[r].key \in DOMAIN cache )
        => LET by == cache[h[r].key].by
           IN  /\ h'[r].exit = "hit"
               /\ h'[r].fetches = 0
               /\ last'.req = r
               /\ by \in Req
               /\ h[by].exit = "upstream"
               /\ h[by].url = h[r].url
               /\ last'.res.status = h[by].got.status
               /\ last'.res.body = h[by].got.body ]_vars

\* A later request was served the second body from an entry that a 2xx miss
\* of an earlier request populated.
C2_Witness ==
  /\ last.exit = "hit"
  /\ last.from \in Req
  /\ last.from < last.req
  /\ Ok(last.res.status)
  /\ last.res.body = "body-2"

\* C3 as claimed: of two requests with the same resolved upstream URL, the
\* one that arrived second makes no upstream call, whatever the interleaving
\* and whatever the first one's fetch gave (no entry having expired).
C3_SecondAlwaysServedFromCache ==
  \A r1, r2 \in Req :
    ( /\ r1 < r2
      /\ ~evicted
      /\ h[r1].url # ""
      /\ h[r1].url = h[r2].url
      /\ h[r2].pc \notin {"idle", "match"} )
    => h[r2].fetches = 0

\* C3 as amended: of two requests with the same resolved upstream URL, the
\* second is served from the cache without a new upstream call when its cache
\* lookup finds the entry the first one wrote (the first one's fetch was
\* cached, its write completed before the lookup, the entry has not expired).
C3_ServedFromCacheWhenEntryPresent ==
  [][ \A r1, r2 \in Req :
        ( /\ r1 # r2
          /\ h[r2].pc = "match"
          /\ h'[r2].pc # "match"
          /\ h[r2].key \in DOMAIN cache
          /\ cache[h[r2].key].by = r1 )
        => ( /\ h'[r2].pc = "done"
             /\ h'[r2].exit = "hit"
             /\ h'[r2].fetches = 0
             /\ h'[r2].timer = "none" ) ]_vars

\* The second of two requests for one URL was served from the entry the first
\* one wrote.
C3_Witness ==
  \E r1, r2 \in Req :
    /\ r1 < r2
    /\ h[r1].url = h[r2].url
    /\ h[r1].exit = "upstream"
    /\ h[r2].exit = "hit"
    /\ h[r2].fetches = 0
    /\ last.req = r2
    /\ last.from = r1

\* C4: a request that misses the cache makes exactly one upstream fetch; when
\* that fetch fails (timeout or network) the handler returns 504 with the JSON
\* error body and the CORS headers, and the request writes nothing to the cache.
C4_SingleAttemptThen504 ==
  /\ \A r \in Req :
       /\ h[r].fetches <= 1
       /\ (h[r].pc \in {"fetch", "body"} \/ h[r].exit \in {"504", "upstream", "threw"})
            => h[r].fetches = 1
       /\ h[r].exit = "504" => ~Wrote(r)
  /\ last.exit = "504" =>
       /\ last.res.status = 504
       /\ last.res.body = ErrorBody
       /\ last.res.headers["Content-Type"] = "application/json"
       /\ last.res.headers["Access-Control-Allow-Methods"] = "GET,HEAD,OPTIONS"
       /\ last.res.headers["Access-Control-Allow-Headers"] = "Content-Type"
       /\ last.res.headers["Vary"] = "Origin"

\* A request timed out into the 504 while the cache held another request's
\* entry.
C4_Witness ==
  /\ last.exit = "504"
  /\ h[last.req].timer = "fired"
  /\ h[last.req].fetches = 1
  /\ cache # <<>>

\* C5: a request whose upstream call (headers and body) was not complete 8 s
\* after it started returns the 504 with the JSON error body.
C5_LateCallYields504 ==
  (last.req # 0 /\ last.late) =>
    /\ last.res.status = 504
    /\ last.res.body = ErrorBody

\* C9: OPTIONS returns 204 with an empty body, any method other than GET and
\* OPTIONS returns 405; neither makes an upstream fetch, a cache lookup or a
\* cache write.
C9_MethodGating ==
  /\ \A r \in Req :
       (h[r].pc # "idle" /\ h[r].method # "GET") =>
         /\ h[r].pc = "done"
         /\ h[r].exit = IF h[r].method = "OPTIONS" THEN "preflight" ELSE "405"
         /\ h[r].fetches = 0
         /\ h[r].url = ""
         /\ h[r].timer = "none"
         /\ ~Wrote(r)
  /\ (last.req # 0 /\ last.method = "OPTIONS") =>
       (last.res.status = 204 /\ last.res.body = "")
  /\ (last.req # 0 /\ last.method \notin {"GET", "OPTIONS"}) =>
       last.res.status = 405

\* A HEAD request was refused with 405 while the cache held an entry.
C9_Witness ==
  /\ last.method = "HEAD"
  /\ last.res.status = 405
  /\ h[last.req].exit = "405"
  /\ cache # <<>>

\* The entries of the configured allow-list.
Configured == (CHOOSE c \in CorsConfigs : c.raw = env.CORS_ORIGIN).entries

\* C6: a response to a request whose Origin is absent or not in the
\* allow-list, under an allow-list without the wildcard, carries no
\* Access-Control-Allow-Origin header.
C6_NoAllowOriginWhenNotAllowed ==
  ( /\ last.req # 0
    /\ last.origin = NoOrigin \/ last.origin \notin Configured
    /\ "*" \notin Configured )
  => last.res.headers["Access-Control-Allow-Origin"] = Absent

\* C7: when the Origin is present and the allow-list holds it or the
\* wildcard, Access-Control-Allow-Origin is the request's Origin; when the
\* Origin is absent and the list holds the wildcard, it is "*".
C7_AllowOriginEcho ==
  last.req # 0 =>
    /\ (last.origin # NoOrigin /\ (last.origin \in Configured \/ "*" \in Configured))
         => last.res.headers["Access-Control-Allow-Origin"] = last.origin
    /\ (last.origin = NoOrigin /\ "*" \in Configured)
         => last.res.headers["Access-Control-Allow-Origin"] = "*"

\* An origin that only the wildcard admits was echoed on a cache hit.
C7_Witness ==
  /\ last.exit = "hit"
  /\ last.origin = "https://a.example"
  /\ "*" \in Configured
  /\ last.origin \notin Configured
  /\ last.res.headers["Access-Control-Allow-Origin"] = "https://a.example"

\* C8: every response returned carries Access-Control-Allow-Methods
\* GET,HEAD,OPTIONS, Access-Control-Allow-Headers Content-Type and Vary
\* Origin.
C8_CorsHeadersOnEveryResponse ==
  last.req # 0 =>
    /\ last.exit \in {"preflight", "405", "hit", "upstream", "504"}
    /\ last.res.headers["Access-Control-Allow-Methods"] = "GET,HEAD,OPTIONS"
    /\ last.res.headers["Access-Control-Allow-Headers"] = "Content-Type"
    /\ last.res.headers["Vary"] = "Origin"

\* A cache hit was returned after an upstream pass-through.
C8_Witness ==
  /\ last.exit = "hit"
  /\ last.from \in Req
  /\ h[last.from].exit = "upstream"
  /\ last.res.headers["Vary"] = "Origin"

\* C10: the forwarded query string holds every inbound parameter first, with
\* the client's values and in the client's order; what follows are defaults
\* for names the client did not send.
C10_InboundValuesWin ==
  \A r \in Req :
    (h[r].pc # "idle" /\ h[r].method = "GET") =>
      LET inbound   == URLSearchParams(h[r].search)
          forwarded == URLSearchParams(h[r].query)
      IN  /\ Len(forwarded) >= Len(inbound)
          /\ SubSeq(forwarded, 1, Len(inbound)) = inbound
          /\ \A i \in (Len(inbound) + 1)..Len(forwarded) :
               ~Has(inbound, forwarded[i].name)

\* "f&f=x" (f twice, once empty) is forwarded as sent, the other defaults
\* appended.
C10_Witness ==
  /\ variant = "index"
  /\ h[1].pc = "match"
  /\ h[1].search = <<"f", "&", "f", "=", "x">>
  /\ Join(h[1].query) =
       "f=&f=x&returnGeometry=true&outFields=*&where=1%3D1&resultRecordCount=500"

\* The inbound paths that name the water dataset: "/water" followed by any
\* number of slashes.
IsWaterPath(path) ==
  \E n \in 0..Len(path) : path = <<"/", "water">> \o [i \in 1..n |-> "/"]

\* The parameters every forwarded query must hold, with the documented
\* default of each for the dataset the path names.
MinimumDefaults(path) ==
  { [name |-> <<"f">>, value |-> <<"geojson">>],
    [name |-> <<"returnGeometry">>, value |-> <<"true">>],
    [name |-> <<"outFields">>, value |-> <<"*">>],
    [name |-> <<"where">>, value |-> <<"1", "=", "1">>],
    [name |-> <<"resultRecordCount">>,
     value |-> IF IsWaterPath(path) THEN <<"1000">> ELSE <<"500">>] }

\* C11: in every build, each parameter of the minimum default set (f,
\* returnGeometry, outFields, where, resultRecordCount) that the inbound query
\* lacks is in the forwarded query with its default: geojson, true, *, 1=1,
\* and the cap 500 for flood or 1000 for water.
C11_DefaultsInEveryVariant ==
  \A r \in Req :
    (h[r].pc # "idle" /\ h[r].method = "GET") =>
      LET inbound   == URLSearchParams(h[r].search)
          forwarded == URLSearchParams(h[r].query)
      IN  \A d \in MinimumDefaults(h[r].path) :
            ~Has(inbound, d.name) => \E i \in 1..Len(forwarded) : forwarded[i] = d

\* C12: a GET is routed to the water upstream (cap 1000) exactly when its
\* path, trailing slashes trimmed, is "/water"; every other path (root,
\* "/flood", unknown, "/WATER") goes to the flood upstream (cap 500), and no
\* path ends in a routing error.
C12_RouteSelection ==
  \A r \in Req :
    (h[r].pc # "idle" /\ h[r].method = "GET") =>
      LET cap  == [name |-> <<"resultRecordCount">>,
                   value |-> IF IsWaterPath(h[r].path) THEN <<"1000">> ELSE <<"500">>]
          base == IF IsWaterPath(h[r].path) THEN UPSTREAM_WATER ELSE UPSTREAM_FLOOD
          sent == URLSearchParams(h[r].query)
      IN  /\ h[r].pc = "match"
          /\ h[r].url = base \o "?" \o Join(h[r].query)
          /\ \E i \in 1..Len(sent) : sent[i] = cap

\* "/water//" was routed to the water upstream.
C12_Witness ==
  /\ h[1].pc = "match"
  /\ h[1].path = <<"/", "water", "/", "/">>
  /\ h[1].url = UPSTREAM_WATER \o "?" \o Join(h[1].query)

\* C13: the TTL in the Cache-Control of an upstream response is the integer
\* parsed from CACHE_TTL, and 3600 when CACHE_TTL is absent, empty or cannot
\* be parsed; the emitted value is always an integer.
C13_TtlIsParsedIntegerOr3600 ==
  last.exit = "upstream" =>
    LET parsed == parseInt(env.CACHE_TTL)
        ttl    == IF env.CACHE_TTL = Unset \/ env.CACHE_TTL = <<>> \/ parsed.isNaN
                    THEN "3600"
                    ELSE ToString(parsed.n)
    IN  last.res.headers["Cache-Control"] =
          "public, max-age=" \o ttl \o ", s-maxage=" \o ttl
            \o ", stale-while-revalidate=60"

\* C14: every invocation ends by returning a response, whichever awaited
\* operation fails (the upstream fetch, the read of the upstream body); none
\* ends in an exception that leaves the handler.
C14_EveryInvocationReturnsResponse ==
  \A r \in Req :
    /\ h[r].pc # "threw"
    /\ h[r].pc = "done" => h[r].exit \in {"preflight", "405", "hit", "upstream", "504"}

\* The response res is what the upstream call of invocation r delivered, with
\* Content-Type and Cache-Control set to the fixed values (TTL 3600): status
\* and body as delivered.
NormalizedFrom(res, r) ==
  /\ res.headers["Content-Type"] = "application/json; charset=utf-8"
  /\ res.headers["Cache-Control"] =
       "public, max-age=3600, s-maxage=3600, stale-while-revalidate=60"
  /\ res.status = h[r].got.status
  /\ res.body = h[r].got.body

\* C15: every upstream response, whatever its status, is returned with
\* Content-Type 'application/json; charset=utf-8' and Cache-Control 'public,
\* max-age=<ttl>, s-maxage=<ttl>, stale-while-revalidate=60' in place of the
\* upstream's values, status and body preserved; the copy handed to the cache
\* has the same headers, status and body.
C15_NormalizedWhateverTheStatus ==
  /\ last.exit = "upstream" => NormalizedFrom(last.res, last.req)
  /\ \A w \in writes : NormalizedFrom(w.res, w.by)
  /\ \A k \in DOMAIN cache : NormalizedFrom(cache[k].res, cache[k].by)

\* A 404 that the upstream sent with headers of its own (its
\* Access-Control-Allow-Origin shows under an allow-list without the wildcard;
\* its Cache-Control was no-store) was returned with the fixed Cache-Control.
C15_Witness ==
  /\ last.exit = "upstream"
  /\ last.res.status = 404
  /\ "*" \notin Configured
  /\ last.res.headers["Access-Control-Allow-Origin"] = "*"
  /\ last.res.headers["Cache-Control"] =
       "public, max-age=3600, s-maxage=3600, stale-while-revalidate=60"

\* C16: the cache key is the resolved upstream URL and nothing else.  Lookups
\* and writes use the URL as the key; two requests have the same URL exactly
\* when they name the same dataset and forward the same query string (the
\* same parameters in the same order), whatever their Origin and path alias,
\* so requests whose parameters come in another order use other entries; a
\* hit is served only from an entry of the same URL.
C16_KeyIsResolvedURL ==
  /\ \A r \in Req : h[r].pc \in {"match", "fetch", "body"} => h[r].key = h[r].url
  /\ \A w \in writes : w.key = h[w.by].url
  /\ \A k \in DOMAIN cache : k = h[cache[k].by].url
  /\ \A r1, r2 \in Req :
       (h[r1].url # "" /\ h[r2].url # "") =>
         ( h[r1].url = h[r2].url
           <=> ( /\ IsWaterPath(h[r1].path) = IsWaterPath(h[r2].path)
                 /\ h[r1].query = h[r2].query ) )
  /\ last.exit = "hit" => h[last.from].url = h[last.req].url

\* "/flood/?f=geojson" sent with an Origin was served from the entry that
\* "/" wrote.
C16_Witness ==
  /\ last.exit = "hit"
  /\ last.origin = "https://a.example"
  /\ h[last.req].path = <<"/", "flood", "/">>
  /\ h[last.from].path = <<"/">>
  /\ h[last.req].url = h[last.from].url

\* C17: the 8 s timer is cleared on every exit of the upstream fetch.  An
\* invocation that has returned (or ended) has no pending timer; once the
\* fetch has resolved the timer is cleared, so the abort fires only while the
\* fetch is pending or on the way to the 504; an invocation that returns
\* before the fetch step (preflight, 405, cache hit) never creates a timer.
C17_TimerClearedOnEveryExit ==
  \A r \in Req :
    /\ h[r].pc \in {"done", "threw"} => h[r].timer # "pending"
    /\ (h[r].pc = "body" \/ h[r].exit \in {"upstream", "threw"}) => h[r].timer = "cleared"
    /\ h[r].timer = "fired" => (h[r].pc = "fetch" \/ h[r].exit = "504")
    /\ h[r].exit = "504" => h[r].timer \in {"cleared", "fired"}
    /\ (h[r].pc \in {"idle", "match"} \/ h[r].exit \in {"preflight", "405", "hit"})
         => h[r].timer = "none"

\* One request ended in the 504 after a network failure, its timer cleared
\* before it fired; another returned the upstream's response past the 8 s,
\* its timer cleared when the fetch resolved.
C17_Witness ==
  \E r1, r2 \in Req :
    /\ h[r1].exit = "504"
    /\ h[r1].timer = "cleared"
    /\ h[r2].exit = "upstream"
    /\ h[r2].timer = "cleared"
    /\ last.req = r2
    /\ last.late

\* Invocation r has a cache write registered and not settled.
WritePending(r) == \E w \in writes : w.by = r

\* C18: the cache write after a 2xx miss is a background task.  A write is
\* pending only for an invocation that has already returned its response; a
\* registered write eventually settles (stored or failed); and the step that
\* settles it, failure included, changes neither the response returned nor
\* any invocation.
C18_BackgroundWrite ==
  /\ [](\A r \in Req : WritePending(r) =>
          (h[r].pc = "done" /\ h[r].exit = "upstream" /\ Ok(h[r].got.status)))
  /\ \A r \in Req : WritePending(r) ~> ~WritePending(r)
  /\ [][ (writes' # writes /\ writes' \subseteq writes) => (last' = last /\ h' = h) ]_vars

\* The response was returned while its cache write is still pending.
C18_Witness ==
  /\ last.exit = "upstream"
  /\ last.res.status = 200
  /\ h[last.req].pc = "done"
  /\ WritePending(last.req)
  /\ cache = <<>>

\* The cache writes that are pending or stored: key, response, writer.
KnownWrites ==
  writes \cup {[by |-> cache[k].by, key |-> k, res |-> cache[k].res] : k \in DOMAIN cache}

\* The write w carries the normalized response of the one upstream fetch its
\* own invocation made for the URL that is the key, and no CORS header (the
\* upstream of this specification sends none).
OwnFetchOf(w) ==
  /\ h[w.by].exit = "upstream"
  /\ h[w.by].fetches = 1
  /\ h[w.by].url = w.key
  /\ NormalizedFrom(w.res, w.by)
  /\ \A n \in HeaderNames \ {"Content-Type", "Cache-Control"} :
       w.res.headers[n] = Absent

\* C19: in index.ts, with uncoordinated concurrent requests, the entry under
\* a key is the normalized 2xx response of one upstream fetch of that URL, and
\* any two writes to the same key carry equivalent content.
C19_WritesToOneKeyEquivalent ==
  variant = "index" =>
    /\ \A w \in KnownWrites : OwnFetchOf(w) /\ Ok(w.res.status)
    /\ \A w1, w2 \in KnownWrites : w1.key = w2.key => w1.res = w2.res

\* C19 as amended: every request that misses makes one upstream fetch of its
\* own and, when the build caches the status (2xx; any status in part_001),
\* registers one write of its own; every pending or stored write carries the
\* normalized response of its own invocation's fetch of the URL that is its
\* key, never parts of two responses; a completed write replaces the entry;
\* two writes to one key are equal when the upstream gave both fetches the
\* same status and body (its headers are the same in every answer here), and
\* may differ otherwise.
C19_EachEntryFromOneFetch ==
  /\ [](\A r \in Req :
          /\ h[r].exit \in {"upstream", "504", "threw"} => h[r].fetches = 1
          /\ h[r].exit \in {"preflight", "405", "hit"} => h[r].fetches = 0
          /\ Cardinality({w \in writes : w.by = r}) <= 1)
  /\ [](\A w \in KnownWrites :
          /\ OwnFetchOf(w)
          /\ variant # "part_001" => Ok(w.res.status))
  /\ [](\A w1, w2 \in KnownWrites :
          (w1.key = w2.key /\ h[w1.by].got = h[w2.by].got) => w1.res = w2.res)
  /\ [][ \A r \in Req :
           (h[r].pc = "body" /\ h'[r].exit = "upstream" /\ Ok(h'[r].got.status))
             => \E w \in writes' \ writes : w.by = r /\ w.key = h'[r].url ]_vars
  /\ [][ \A w \in writes :
           (w \notin writes' /\ cache' # cache)
             => (w.key \in DOMAIN cache' /\ cache'[w.key] = [res |-> w.res, by |-> w.by]) ]_vars

\* In index.ts two requests for one URL both missed; the entry holds the
\* response of one, the pending write of the other carries another body.
C19_Witness ==
  /\ variant = "index"
  /\ \E k \in DOMAIN cache, w \in writes :
       /\ w.key = k
       /\ w.by # cache[k].by
       /\ w.res.body # cache[k].res.body
       /\ w.res.status = cache[k].res.status

\* C20: a stored response carries no CORS header computed by the handler:
\* its Access-Control-Allow-Origin is the upstream's or absent, never a
\* requester's Origin or the handler's "*".  A hit returns the stored status,
\* body, Content-Type and Cache-Control as stored, and the CORS headers of
\* the current request: the Allow-Origin the handler sets is a function of
\* the current Origin and the allow-list, so the Origin of the request that
\* populated the entry never shows in another request's hit.
C20_HitCorsFromCurrentRequest ==
  /\ [](\A w \in KnownWrites :
          /\ w.res.headers["Access-Control-Allow-Origin"] \in {Absent, "https://portal.example"}
          /\ w.res.headers["Access-Control-Allow-Methods"] = Absent
          /\ w.res.headers["Access-Control-Allow-Headers"] = Absent
          /\ w.res.headers["Vary"] = Absent)
  /\ []((last.exit = "hit" /\ last.from = 1 /\ last.req # 1)
          => last.res.headers["Access-Control-Allow-Origin"] # "https://a.example")
  /\ [][ \A r \in Req :
           (h[r].pc = "match" /\ h'[r].exit = "hit") =>
             LET e == cache[h[r].key].res
                 o == h[r].reqOrigin
             IN  /\ last'.req = r
                 /\ last'.res.status = e.status
                 /\ last'.res.body = e.body
                 /\ last'.res.headers["Content-Type"] = e.headers["Content-Type"]
                 /\ last'.res.headers["Cache-Control"] = e.headers["Cache-Control"]
                 /\ last'.res.headers["Access-Control-Allow-Methods"] = "GET,HEAD,OPTIONS"
                 /\ last'.res.headers["Access-Control-Allow-Headers"] = "Content-Type"
                 /\ last'.res.headers["Vary"] = "Origin"
                 /\ last'.res.headers["Access-Control-Allow-Origin"] =
                      IF o # NoOrigin /\ (o \in Configured \/ "*" \in Configured) THEN o
                      ELSE IF o = NoOrigin /\ "*" \in Configured THEN "*"
                      ELSE e.headers["Access-Control-Allow-Origin"] ]_vars

\* The entry was populated by a request whose Origin the allow-list admits;
\* a later request without Origin was served from it with no Allow-Origin.
C20_Witness ==
  /\ last.exit = "hit"
  /\ last.from = 1
  /\ last.origin = NoOrigin
  /\ "https://a.example" \in Configured
  /\ "*" \notin Configured
  /\ last.res.headers["Access-Control-Allow-Origin"] = Absent

====
